---- MODULE Spec2Model ----
(***************************************************************************)
(* A model of clamp (src/src/lib.rs, src/src/main.rs): the include         *)
(* resolver process_template, the change detector compare_hashes, the      *)
(* lockfile gateway read_lockfile / write_lockfile and the two commands    *)
(* run_build_check and run_update_lock.                                    *)
(*                                                                         *)
(* Text is a sequence of one-character strings, positions are 1-based and  *)
(* the end of a span is exclusive.  An Option is a sequence of length 0    *)
(* (None) or 1 (Some).  A BTreeMap is a function whose domain is its key   *)
(* set.                                                                    *)
(***************************************************************************)
EXTENDS Integers, Sequences, FiniteSets

VARIABLES template, fs, lockfile, lockedFrom, run

vars == <<template, fs, lockfile, lockedFrom, run>>

----------------------------------------------------------------------------
(* Options, maps and text helpers *)

None == <<>>

Some(v) == <<v>>

IsSome(o) == Len(o) = 1

Unwrap(o) == o[1]

EmptyMap == <<>>

\* BTreeMap::insert: the entry of an existing key is overwritten
MapInsert(m, k, v) == [x \in (DOMAIN m) \cup {k} |-> IF x = k THEN v ELSE m[x]]

RECURSIVE Concat(_)
Concat(ss) == IF ss = <<>> THEN <<>> ELSE Head(ss) \o Concat(Tail(ss))

RECURSIVE CharsToStr(_)
CharsToStr(cs) == IF cs = <<>> THEN "" ELSE Head(cs) \o CharsToStr(Tail(cs))

\* { e : x \in {v} } is e with x bound to the value of v, which is then
\* evaluated once however often e uses x; Only takes e back out of the set
Only(S) == CHOOSE x \in S : TRUE

Min(S) == CHOOSE x \in S : \A y \in S : x <= y

Max(S) == CHOOSE x \in S : \A y \in S : x >= y

\* text[from..to) ; the Rust slice &s[from..to]
Slice(text, from, to) == SubSeq(text, from, to - 1)

\* whether the literal lit occurs in text at position p
HasAt(text, p, lit) ==
    /\ p >= 1
    /\ p + Len(lit) - 1 <= Len(text)
    /\ SubSeq(text, p, p + Len(lit) - 1) = lit

\* \s of the regex and char::is_whitespace of str::trim, on the model's alphabet
IsWhitespace(c) == c \in {" ", "\n", "\t"}

RECURSIVE TrimStart(_)
TrimStart(cs) ==
    IF cs # <<>> /\ IsWhitespace(Head(cs)) THEN TrimStart(Tail(cs)) ELSE cs

RECURSIVE TrimEnd(_)
TrimEnd(cs) ==
    IF cs # <<>> /\ IsWhitespace(cs[Len(cs)])
    THEN TrimEnd(SubSeq(cs, 1, Len(cs) - 1))
    ELSE cs

\* str::trim
Trim(cs) == TrimEnd(TrimStart(cs))

----------------------------------------------------------------------------
(* The include regex  \[\[include:\s*(.*?)\s*\]\]  *)

OpenLit == <<"[", "[", "i", "n", "c", "l", "u", "d", "e", ":">>

CloseLit == <<"]", "]">>

\* number of consecutive whitespace characters from position p on
RECURSIVE WsRun(_, _)
WsRun(text, p) ==
    IF p <= Len(text) /\ IsWhitespace(text[p]) THEN 1 + WsRun(text, p + 1) ELSE 0

\* number of consecutive characters "." matches (anything but a line feed)
RECURSIVE DotRun(_, _)
DotRun(text, p) ==
    IF p <= Len(text) /\ text[p] # "\n" THEN 1 + DotRun(text, p + 1) ELSE 0

\* The ways the pattern can match at p: <<i, j, k>> are the lengths taken by
\* the first \s*, by (.*?) and by the second \s*.
MatchWays(text, p) ==
    LET s == p + Len(OpenLit)
    IN  IF ~HasAt(text, p, OpenLit) THEN {}
        ELSE UNION { UNION { { <<i, j, k>> : k \in { k \in 0..WsRun(text, s + i + j) :
                                                       HasAt(text, s + i + j + k, CloseLit) } }
                             : j \in 0..DotRun(text, s + i) }
                     : i \in 0..WsRun(text, s) }

\* The engine's preference among the ways: the first \s* is greedy, (.*?) is
\* lazy, the second \s* is greedy.
Preferred_greedy(c, d) ==
    \/ c[1] > d[1]
    \/ c[1] = d[1] /\ c[2] > d[2]
    \/ c[1] = d[1] /\ c[2] = d[2] /\ c[3] >= d[3]

Preferred(c, d) ==
    \/ c[1] > d[1]
    \/ c[1] = d[1] /\ c[2] < d[2]
    \/ c[1] = d[1] /\ c[2] = d[2] /\ c[3] >= d[3]

\* The match at p, if any: its span (cap.get(0)) and the group's (cap.get(1))
MatchAt(text, p) ==
    LET ways == MatchWays(text, p)
        s    == p + Len(OpenLit)
    IN  IF ways = {} THEN None
        ELSE LET w == CHOOSE c \in ways : \A d \in ways : Preferred(c, d)
             IN  Some([start     |-> p,
                       end       |-> s + w[1] + w[2] + w[3] + Len(CloseLit),
                       cap_start |-> s + w[1],
                       cap_end   |-> s + w[1] + w[2]])

\* captures_iter's next item: the leftmost match starting at or after from
NextMatch(text, from) ==
    LET starts == { p \in from..Len(text) : MatchWays(text, p) # {} }
    IN  IF starts = {} THEN None ELSE MatchAt(text, Min(starts))

----------------------------------------------------------------------------
(* Paths and the file system.  The template is /w/doc.clamp; the directory *)
(* /w holds the regular files of Files (each present or not) and the       *)
(* symbolic links of SymLinks.                                             *)

Files == {"a.t", "b"}

SymLinks == [l |-> "a.t"]

BaseDir == <<"/", "w">>

InvalidByte == "<0xFF>"

Hi == <<"h", "i">>

Yo == <<"y", "o">>

Bad == <<InvalidByte>>

\* the components of a path: the text between its separators
RECURSIVE SplitPath(_, _)
SplitPath(cs, cur) ==
    IF cs = <<>> THEN <<cur>>
    ELSE IF Head(cs) = "/" THEN <<cur>> \o SplitPath(Tail(cs), <<>>)
    ELSE SplitPath(Tail(cs), Append(cur, Head(cs)))

\* Path::join: an absolute argument replaces the base
PathJoin(base, rel) ==
    IF rel # <<>> /\ Head(rel) = "/" THEN rel
    ELSE IF base = <<>> THEN rel
    ELSE IF base[Len(base)] = "/" THEN base \o rel
    ELSE base \o <<"/">> \o rel

NoNode == [kind |-> "none", path |-> "", via |-> ""]

\* one step of path resolution from node along component c
WalkStep(files, node, c) ==
    LET name == CharsToStr(c)
    IN  IF node.kind # "dir" THEN NoNode
        ELSE IF name \in {"", "."} THEN node
        ELSE IF name = ".." THEN [kind |-> "dir", path |-> "/", via |-> "/"]
        ELSE IF node.path = "/"
        THEN IF name = "w" THEN [kind |-> "dir", path |-> "/w", via |-> "/w"] ELSE NoNode
        ELSE LET target == IF name \in DOMAIN SymLinks THEN SymLinks[name] ELSE name
             IN  IF target \in Files /\ IsSome(files[target])
                 THEN [kind |-> "file", path |-> "/w/" \o target, via |-> "/w/" \o name]
                 ELSE NoNode

RECURSIVE Walk(_, _, _)
Walk(files, node, comps) ==
    IF comps = <<>> THEN node
    ELSE Only({ Walk(files, next, Tail(comps)) :
                next \in {WalkStep(files, node, Head(comps))} })

\* what an absolute path names: kind is "dir", "file" or "none"; path has the
\* symbolic links resolved, via has not
Lookup(files, path) ==
    IF path = <<>> \/ Head(path) # "/" THEN NoNode
    ELSE Walk(files, [kind |-> "dir", path |-> "/", via |-> "/"], SplitPath(path, <<>>))

\* Path::exists
PathExists_always(files, path) == TRUE

PathExists(files, path) == Lookup(files, path).kind # "none"

\* fs::canonicalize
Canonicalize_nofollow(files, path) ==
    LET n == Lookup(files, path) IN IF n.kind = "none" THEN None ELSE Some(n.via)

Canonicalize(files, path) ==
    LET n == Lookup(files, path) IN IF n.kind = "none" THEN None ELSE Some(n.path)

\* fs::read of a path that canonicalize returned: a directory cannot be read
FsRead(files, canonical) ==
    LET hit == { f \in Files : "/w/" \o f = canonical }
        lnk == { l \in DOMAIN SymLinks : "/w/" \o l = canonical }
        tgt == hit \cup { SymLinks[l] : l \in lnk }
    IN  IF tgt # {} /\ \A f \in tgt : f \in Files /\ IsSome(files[f])
        THEN files[CHOOSE f \in tgt : TRUE]
        ELSE None

\* String::from_utf8
FromUtf8(bytes) ==
    IF \E i \in 1..Len(bytes) : bytes[i] = InvalidByte THEN None ELSE Some(bytes)

\* Path::file_name: the last component, "." and empty ones dropped; none for ".."
FileName(path) ==
    LET comps == SelectSeq(SplitPath(path, <<>>), LAMBDA c : c # <<>> /\ c # <<".">>)
    IN  IF comps = <<>> \/ comps[Len(comps)] = <<".", ".">> THEN None
        ELSE Some(comps[Len(comps)])

\* Path::extension: what follows the last dot of the file name, unless the
\* name has no dot or nothing stands before its last dot
Extension(path) ==
    LET fname == FileName(path)
    IN  IF ~IsSome(fname) THEN None
        ELSE LET n    == Unwrap(fname)
                 dots == { i \in 1..Len(n) : n[i] = "." }
             IN  IF dots = {} \/ Max(dots) = 1 THEN None
                 ELSE Some(SubSeq(n, Max(dots) + 1, Len(n)))

\* SHA-256 of the contents the model uses, hex-encoded (hex::encode)
calculate_hash_noupdate(content) ==
    "e3b0c44298fc1c149afbf4c8996fb92427ae41e4649b934ca495991b7852b855"

calculate_hash(content) ==
    CASE content = <<>> -> "e3b0c44298fc1c149afbf4c8996fb92427ae41e4649b934ca495991b7852b855"
      [] content = Hi   -> "8f434346648f6b96df89dda901c5176b10a6d83961dd3c1ac88b59b2dc327aa4"
      [] content = Yo   -> "e9058ab198f6908f702111b0c0fb5b36f99d00554521886c40e2891b349dc7a1"
      [] content = Bad  -> "a8100ae6aa1940d0b663bb31cd466142ebbdbd5187131b92d93818987832eb89"

----------------------------------------------------------------------------
(* process_template *)

\* the grave accent, which a string literal of the module cannot hold
Backtick == "<grave>"

Fence == <<Backtick, Backtick, Backtick>>

\* write!(output_buffer, "{fence}{lang_hint}\n{content_str}\n{fence}\n"), fence
\* being three grave accents
RenderBlock_nonewline(lang_hint, content_str) ==
    Fence \o lang_hint \o <<"\n">> \o content_str \o <<"\n">> \o Fence

RenderBlock(lang_hint, content_str) ==
    Fence \o lang_hint \o <<"\n">> \o content_str \o <<"\n">> \o Fence \o <<"\n">>

\* the locals of process_template before the loop; accessed, directives and
\* included record what the loop did
InitLocals ==
    [current_pos    |-> 1,
     output_buffer  |-> <<>>,
     current_hashes |-> EmptyMap,
     accessed       |-> <<>>,
     directives     |-> <<>>,
     included       |-> EmptyMap]

Failed(kind, st) == [status |-> kind, value |-> None, locals |-> st]

\* the body of the loop for the match m; status "Continue" when it falls through
IncludeStep(text, files, st, m) ==
    LET relative_path_str == Trim(Slice(text, m.cap_start, m.cap_end))
        include_path      == PathJoin(BaseDir, relative_path_str)
        st1 == [st EXCEPT
                  !.output_buffer = @ \o Slice(text, st.current_pos, m.start),
                  !.directives = Append(@, [start |-> m.start, end |-> m.end,
                                            ref |-> relative_path_str]),
                  !.accessed = Append(@, <<"exists", CharsToStr(include_path)>>)]
    IN  IF ~PathExists(files, include_path) THEN Failed("IncludeNotFound", st1)
        ELSE
        LET canon == Canonicalize(files, include_path)
            st2   == [st1 EXCEPT !.accessed =
                        Append(@, <<"canonicalize", CharsToStr(include_path)>>)]
        IN  IF ~IsSome(canon) THEN Failed("CanonicalizeError", st2)
            ELSE
            LET canonical_path == Unwrap(canon)
                bytes == FsRead(files, canonical_path)
                st3   == [st2 EXCEPT !.accessed = Append(@, <<"read", canonical_path>>)]
            IN  IF ~IsSome(bytes) THEN Failed("ReadError", st3)
                ELSE
                LET hash == calculate_hash(Unwrap(bytes))
                    st4  == [st3 EXCEPT
                               !.current_hashes = MapInsert(@, canonical_path, hash),
                               !.included = MapInsert(@, canonical_path, Unwrap(bytes)),
                               !.accessed = Append(@, <<"hash", canonical_path>>)]
                    content_str == FromUtf8(Unwrap(bytes))
                IN  IF ~IsSome(content_str) THEN Failed("EncodingError", st4)
                    ELSE
                    LET ext       == Extension(include_path)
                        lang_hint == IF IsSome(ext) THEN Unwrap(ext) ELSE <<>>
                    IN  [status |-> "Continue",
                         value  |-> None,
                         locals |-> [st4 EXCEPT
                             !.output_buffer = @ \o RenderBlock(lang_hint, Unwrap(content_str)),
                             !.current_pos = m.end]]

\* for cap in include_regex.captures_iter(&template_content) { ... }
\* what follows the loop: the rest of the template, and Ok(ProcessResult)
AfterLoop(text, st) ==
    LET out == st.output_buffer \o Slice(text, st.current_pos, Len(text) + 1)
    IN  [status |-> "Ok",
         value  |-> Some([output_content |-> out, current_hashes |-> st.current_hashes]),
         locals |-> [st EXCEPT !.output_buffer = out]]

RECURSIVE IncludeLoop(_, _, _)
IncludeLoop(text, files, st) ==
    Only({ IF ~IsSome(m) THEN AfterLoop(text, st)
           ELSE Only({ IF r.status = "Continue"
                       THEN IncludeLoop(text, files, r.locals)
                       ELSE r :
                       r \in {IncludeStep(text, files, st, Unwrap(m))} }) :
           m \in {NextMatch(text, st.current_pos)} })

\* process_template(template_path): tmpl is the template file's content, None
\* when the file cannot be read
process_template(tmpl, files) ==
    IF ~IsSome(tmpl) THEN Failed("TemplateReadError", InitLocals)
    ELSE IncludeLoop(Unwrap(tmpl), files, InitLocals)

----------------------------------------------------------------------------
(* compare_hashes *)

Unchanged == "Unchanged"

Modified == "Modified"

Added == "Added"

Removed == "Removed"

\* every canonical path the model can meet, in PathBuf order (the order a
\* BTreeMap is iterated in)
PathOrder == <<"/", "/w", "/w/a.t", "/w/b", "/w/l", "/w/old">>

SortedKeys(m) == SelectSeq(PathOrder, LAMBDA p : p \in DOMAIN m)

\* the body of the first loop, for one entry of current_hashes
ClassifyCurrent_swapped(changes, path, current_hash, locked_hashes) ==
    IF path \in DOMAIN locked_hashes
    THEN IF current_hash # locked_hashes[path]
         THEN MapInsert(changes, path, Added)
         ELSE changes
    ELSE MapInsert(changes, path, Modified)

ClassifyCurrent(changes, path, current_hash, locked_hashes) ==
    IF path \in DOMAIN locked_hashes
    THEN IF current_hash # locked_hashes[path]
         THEN MapInsert(changes, path, Modified)
         ELSE changes
    ELSE MapInsert(changes, path, Added)

\* the body of the second loop, for one key of locked_hashes
ClassifyLocked_unguarded(changes, path, current_hashes) ==
    MapInsert(changes, path, Removed)

ClassifyLocked(changes, path, current_hashes) ==
    IF path \notin DOMAIN current_hashes
    THEN MapInsert(changes, path, Removed)
    ELSE changes

RECURSIVE FirstLoop(_, _, _, _)
FirstLoop(changes, keys, current_hashes, locked_hashes) ==
    IF keys = <<>> THEN changes
    ELSE FirstLoop(ClassifyCurrent(changes, Head(keys), current_hashes[Head(keys)],
                                   locked_hashes),
                   Tail(keys), current_hashes, locked_hashes)

RECURSIVE SecondLoop(_, _, _)
SecondLoop(changes, keys, current_hashes) ==
    IF keys = <<>> THEN changes
    ELSE SecondLoop(ClassifyLocked(changes, Head(keys), current_hashes),
                    Tail(keys), current_hashes)

\* changes as the first loop leaves it
FirstPass(current_hashes, locked_hashes) ==
    FirstLoop(EmptyMap, SortedKeys(current_hashes), current_hashes, locked_hashes)

compare_hashes(current_hashes, locked_hashes) ==
    SecondLoop(FirstPass(current_hashes, locked_hashes),
               SortedKeys(locked_hashes), current_hashes)

----------------------------------------------------------------------------
(* The lockfile: the file at get_lockfile_path(template_path).  It is       *)
(* absent, a directory (which can be neither read nor written as a file)   *)
(* or a text file.  The text is a sequence of lines, each a tuple.         *)

LockAbsent == [kind |-> "absent", text |-> <<>>]

LockDir == [kind |-> "dir", text |-> <<>>]

LockText(lines) == [kind |-> "text", text |-> lines]

FilesHeader == <<"[files]">>

\* toml::to_string_pretty of LockfileData: the table header and one
\* "key" = "value" line per entry, in key order
TomlSerialize(data) ==
    <<FilesHeader>> \o
    [i \in 1..Len(SortedKeys(data.files)) |->
        <<SortedKeys(data.files)[i], "=", data.files[SortedKeys(data.files)[i]]>>]

\* toml::from_str into LockfileData: the files table is required, every line
\* after it is an entry and no key is defined twice
TomlParse(text) ==
    IF /\ text # <<>>
       /\ text[1] = FilesHeader
       /\ \A i \in 2..Len(text) : Len(text[i]) = 3 /\ text[i][2] = "="
       /\ \A i, j \in 2..Len(text) : text[i][1] = text[j][1] => i = j
    THEN Some([files |-> [k \in { text[i][1] : i \in 2..Len(text) } |->
                            LET i == CHOOSE i \in 2..Len(text) : text[i][1] = k
                            IN  text[i][3]]])
    ELSE None

\* read_lockfile
read_lockfile_strict(lock) ==
    IF lock.kind = "absent"
    THEN [status |-> "LockReadError", value |-> None, warning |-> FALSE, writes |-> <<>>]
    ELSE IF lock.kind = "dir"
    THEN [status |-> "LockReadError", value |-> None, warning |-> FALSE, writes |-> <<>>]
    ELSE LET parsed == TomlParse(lock.text)
         IN  IF IsSome(parsed)
             THEN [status |-> "Ok", value |-> parsed, warning |-> FALSE, writes |-> <<>>]
             ELSE [status |-> "ParseError", value |-> None, warning |-> FALSE,
                   writes |-> <<>>]

read_lockfile_create(lock) ==
    IF lock.kind = "absent"
    THEN [status |-> "Ok", value |-> Some([files |-> EmptyMap]), warning |-> TRUE,
          writes |-> <<TomlSerialize([files |-> EmptyMap])>>]
    ELSE IF lock.kind = "dir"
    THEN [status |-> "LockReadError", value |-> None, warning |-> FALSE, writes |-> <<>>]
    ELSE LET parsed == TomlParse(lock.text)
         IN  IF IsSome(parsed)
             THEN [status |-> "Ok", value |-> parsed, warning |-> FALSE, writes |-> <<>>]
             ELSE [status |-> "ParseError", value |-> None, warning |-> FALSE,
                   writes |-> <<>>]

read_lockfile(lock) ==
    IF lock.kind = "absent"
    THEN [status |-> "Ok", value |-> Some([files |-> EmptyMap]), warning |-> TRUE,
          writes |-> <<>>]
    ELSE IF lock.kind = "dir"
    THEN [status |-> "LockReadError", value |-> None, warning |-> FALSE, writes |-> <<>>]
    ELSE LET parsed == TomlParse(lock.text)
         IN  IF IsSome(parsed)
             THEN [status |-> "Ok", value |-> parsed, warning |-> FALSE, writes |-> <<>>]
             ELSE [status |-> "ParseError", value |-> None, warning |-> FALSE,
                   writes |-> <<>>]

\* write_lockfile: writes is the text fs::write puts in the lockfile, if any
write_lockfile(lock, data) ==
    IF lock.kind = "dir"
    THEN [status |-> "WriteError", writes |-> <<>>]
    ELSE [status |-> "Ok", writes |-> <<TomlSerialize(data)>>]

----------------------------------------------------------------------------
(* The commands of main.rs.  An outcome is what the command shows (status, *)
(* exit code, stdout, the change report on stderr) with, for the           *)
(* properties, the locals of process_template at its exit and the maps     *)
(* compare_hashes was given.                                               *)

ExitSuccess == 0

ExitFailure == 1

\* ExitCode::from(1): changes detected
ExitChanges == 1

Outcome(cmd, status, code, out, changes, report, warning, locals, locked, first) ==
    [cmd |-> cmd, status |-> status, exit_code |-> code, stdout |-> out,
     changes |-> changes, report |-> report, warning |-> warning,
     locals |-> locals, locked |-> locked, first_pass |-> first]

NoRun == Outcome("none", "", ExitSuccess, None, None, <<>>, FALSE, InitLocals, None, None)

\* main: Err(e) => ExitCode::FAILURE
ErrOutcome(cmd, status, warning, locals) ==
    Outcome(cmd, status, ExitFailure, None, None, <<>>, warning, locals, None, None)

\* the match on status in the report loop of run_build_check
StatusStr(status) ==
    CASE status = Modified -> "Modified"
      [] status = Added    -> "Added"
      [] status = Removed  -> "Removed"
      [] OTHER             -> "unreachable!()"

\* for (path, status) in changes { eprintln!("  - {}: {}", status_str, path) }
Report(changes) ==
    [i \in 1..Len(SortedKeys(changes)) |->
        <<StatusStr(changes[SortedKeys(changes)[i]]), SortedKeys(changes)[i]>>]

\* steps 3 to 5 of run_build_check
CheckOutcome(process_result, lockfile_data, current, locked) ==
    Only({ Outcome("build", "Ok",
                   IF changes = EmptyMap THEN ExitSuccess ELSE ExitChanges,
                   Some(Unwrap(process_result.value).output_content),
                   Some(changes), Report(changes),
                   lockfile_data.warning, process_result.locals,
                   Some(locked), Some(FirstPass(current, locked))) :
           changes \in {compare_hashes(current, locked)} })

BuildCheckAfter(process_result, lock) ==
    Only({ IF lockfile_data.status # "Ok"
           THEN [outcome |-> ErrOutcome("build", lockfile_data.status,
                                        lockfile_data.warning, process_result.locals),
                 writes  |-> lockfile_data.writes]
           ELSE [outcome |-> CheckOutcome(process_result, lockfile_data,
                                          Unwrap(process_result.value).current_hashes,
                                          Unwrap(lockfile_data.value).files),
                 writes  |-> lockfile_data.writes] :
           lockfile_data \in {read_lockfile(lock)} })

run_build_check(tmpl, files, lock) ==
    Only({ IF process_result.status # "Ok"
           THEN [outcome |-> ErrOutcome("build", process_result.status, FALSE,
                                        process_result.locals),
                 writes  |-> <<>>]
           ELSE BuildCheckAfter(process_result, lock) :
           process_result \in {process_template(tmpl, files)} })

\* steps 2 and 3 of run_update_lock
UpdateLockAfter(process_result, lock) ==
    Only({ IF written.status # "Ok"
           THEN [outcome |-> ErrOutcome("update", written.status, FALSE,
                                        process_result.locals),
                 writes  |-> written.writes]
           ELSE [outcome |-> Outcome("update", "Ok", ExitSuccess, None, None, <<>>,
                                     FALSE, process_result.locals, None, None),
                 writes  |-> written.writes] :
           written \in {write_lockfile(lock,
                           [files |-> Unwrap(process_result.value).current_hashes])} })

run_update_lock_eager(tmpl, files, lock) ==
    Only({ IF process_result.status # "Ok"
           THEN [outcome |-> ErrOutcome("update", process_result.status, FALSE,
                                        process_result.locals),
                 writes  |-> write_lockfile(lock,
                               [files |-> process_result.locals.current_hashes]).writes]
           ELSE UpdateLockAfter(process_result, lock) :
           process_result \in {process_template(tmpl, files)} })

run_update_lock(tmpl, files, lock) ==
    Only({ IF process_result.status # "Ok"
           THEN [outcome |-> ErrOutcome("update", process_result.status, FALSE,
                                        process_result.locals),
                 writes  |-> <<>>]
           ELSE UpdateLockAfter(process_result, lock) :
           process_result \in {process_template(tmpl, files)} })

----------------------------------------------------------------------------
(* The inputs: templates, file contents, lockfiles left by someone else *)

Inc(ref) == OpenLit \o <<" ">> \o ref \o CloseLit

RefA == <<"a", ".", "t">>

RefDotA == <<".", "/", "a", ".", "t">>

RefL == <<"l">>

RefB == <<"b">>

RefM == <<"m">>

TPlain == <<"h", "e", "y", "\n">>

TOne == Inc(RefA)

TTwo == <<"A", " ">> \o Inc(RefA) \o <<"\n", "-">> \o Inc(RefB) \o <<"Z">>

TAlias == Inc(RefL) \o Inc(RefDotA) \o <<" ">> \o Inc(RefA)

TMissing == Inc(RefA) \o <<"-">> \o Inc(RefM) \o Inc(RefB)

TDir == <<"d", ":">> \o Inc(<<>>)

TBroken == OpenLit \o RefA \o <<"\n">> \o RefB \o CloseLit \o <<"\n">> \o Inc(RefB)

Templates == {TPlain, TOne, TTwo, TAlias, TMissing, TDir, TBroken}

Contents == {Hi, Yo, Bad}

LockKeys == {"/w/a.t", "/w/b", "/w/old"}

LockValues == {calculate_hash(Hi), "h1"}

\* lockfiles not written by update-lock: none, a directory, text that is not
\* a lockfile, and any table over LockKeys and LockValues
ForeignLocks ==
    {LockAbsent, LockDir, LockText(<< <<"garbage">> >>)} \cup
    { LockText(TomlSerialize([files |-> m])) :
        m \in UNION { [K -> LockValues] : K \in SUBSET LockKeys } }

----------------------------------------------------------------------------
(* The state machine.  lockedFrom is None, or the contents (by canonical   *)
(* path) of the files the last successful update-lock read, as long as the *)
(* lockfile is the one it wrote.  run is the outcome of the command that   *)
(* has just run.                                                           *)

ApplyWrites(lock, writes) ==
    IF writes = <<>> THEN lock ELSE LockText(writes[Len(writes)])

Init ==
    /\ template = Some(TOne)
    /\ fs = [f \in Files |-> None]
    /\ lockfile = LockAbsent
    /\ lockedFrom = None
    /\ run = NoRun

RunBuildCheck ==
    \E r \in {run_build_check(template, fs, lockfile)} :
        /\ run' = r.outcome
        /\ lockfile' = ApplyWrites(lockfile, r.writes)
        /\ lockedFrom' = IF r.writes = <<>> THEN lockedFrom ELSE None
        /\ UNCHANGED <<template, fs>>

RunUpdateLock ==
    \E r \in {run_update_lock(template, fs, lockfile)} :
        /\ run' = r.outcome
        /\ lockfile' = ApplyWrites(lockfile, r.writes)
        /\ lockedFrom' = IF r.outcome.status = "Ok" THEN Some(r.outcome.locals.included)
                         ELSE IF r.writes = <<>> THEN lockedFrom ELSE None
        /\ UNCHANGED <<template, fs>>

\* someone writes or removes an included file, edits or removes the template,
\* or replaces the lockfile
WriteFile(f, c) ==
    /\ fs' = [fs EXCEPT ![f] = Some(c)]
    /\ run' = NoRun
    /\ UNCHANGED <<template, lockfile, lockedFrom>>

RemoveFile(f) ==
    /\ fs' = [fs EXCEPT ![f] = None]
    /\ run' = NoRun
    /\ UNCHANGED <<template, lockfile, lockedFrom>>

EditTemplate(t) ==
    /\ template' = t
    /\ run' = NoRun
    /\ UNCHANGED <<fs, lockfile, lockedFrom>>

ReplaceLockfile(l) ==
    /\ lockfile' = l
    /\ lockedFrom' = None
    /\ run' = NoRun
    /\ UNCHANGED <<template, fs>>

Next ==
    \/ RunBuildCheck
    \/ RunUpdateLock
    \/ \E f \in Files, c \in Contents : WriteFile(f, c)
    \/ \E f \in Files : RemoveFile(f)
    \/ \E t \in {None} \cup { Some(t) : t \in Templates } : EditTemplate(t)
    \/ \E l \in ForeignLocks : ReplaceLockfile(l)

Spec == Init /\ [][Next]_vars

----------------------------------------------------------------------------
(* The scanner on its own: every template that is a concatenation of at    *)
(* most MaxFrags fragments, over a fixed directory.                        *)

MaxFrags == 6

ScanFrags == {OpenLit, CloseLit, <<" ">>, <<"\n">>, RefA, <<"]">>}

ScanTemplates ==
    { Concat(fr) : fr \in UNION { [1..k -> ScanFrags] : k \in 0..MaxFrags } }

ScanFiles == [f \in Files |-> IF f = "a.t" THEN Some(Hi) ELSE Some(Yo)]

InitScan ==
    /\ template \in { Some(t) : t \in ScanTemplates \cup Templates }
    /\ fs = ScanFiles
    /\ lockfile = LockAbsent
    /\ lockedFrom = None
    /\ run = NoRun

NextScan == RunBuildCheck

ScanSpec == InitScan /\ [][NextScan]_vars

----------------------------------------------------------------------------
(* What the properties are stated in: the directives of a template, the    *)
(* file a reference names and the diff of two maps, each written down      *)
(* from its description and not from the code above.                       *)

ResolutionErrors ==
    {"TemplateReadError", "IncludeNotFound", "CanonicalizeError", "ReadError",
     "EncodingError"}

\* the position of the first "]]" at or after from, 0 if there is none
FirstClose(text, from) ==
    LET qs == { q \in from..Len(text) : HasAt(text, q, CloseLit) }
    IN  IF qs = {} THEN 0 ELSE Min(qs)

\* the directive that opens at p and ends with the first "]]" after it
DirectiveAt(text, p) ==
    LET q == FirstClose(text, p + Len(OpenLit))
    IN  [start |-> p, end |-> q + Len(CloseLit),
         ref |-> Trim(Slice(text, p + Len(OpenLit), q))]

\* "[[include:" stands at p and a "]]" follows it
Opens(text, p) ==
    HasAt(text, p, OpenLit) /\ FirstClose(text, p + Len(OpenLit)) # 0

HasLineBreak(cs) == \E i \in 1..Len(cs) : cs[i] = "\n"

\* the directives when every opening followed by "]]" is one, whatever lies
\* between
RECURSIVE ClaimedDirectives(_, _)
ClaimedDirectives(text, from) ==
    LET ps == { p \in from..Len(text) : Opens(text, p) }
    IN  IF ps = {} THEN <<>>
        ELSE <<DirectiveAt(text, Min(ps))>> \o
             ClaimedDirectives(text, DirectiveAt(text, Min(ps)).end)

\* the directives when an opening is one only if its reference holds no
\* line break
RECURSIVE SpecDirectives(_, _)
SpecDirectives(text, from) ==
    LET ps == { p \in from..Len(text) :
                  Opens(text, p) /\ ~HasLineBreak(DirectiveAt(text, p).ref) }
    IN  IF ps = {} THEN <<>>
        ELSE <<DirectiveAt(text, Min(ps))>> \o
             SpecDirectives(text, DirectiveAt(text, Min(ps)).end)

\* the processed directives are the first ones of ds, all of them when the
\* run succeeded, and they neither overlap nor go backwards
ProcessedAre(ds) ==
    LET got == run.locals.directives
    IN  /\ Len(got) <= Len(ds)
        /\ got = SubSeq(ds, 1, Len(got))
        /\ run.status \notin ResolutionErrors => Len(got) = Len(ds)
        /\ \A i \in 1..Len(got) - 1 : got[i].end <= got[i + 1].start

\* the file of /w a reference names ("" when it names none), whether it
\* names the directory itself, and its extension
RefFile(ref) ==
    CASE ref = RefA    -> "a.t"
      [] ref = RefDotA -> "a.t"
      [] ref = RefL    -> "a.t"
      [] ref = RefB    -> "b"
      [] OTHER         -> ""

RefIsDir(ref) == ref = <<>>

RefHint(ref) == IF ref \in {RefA, RefDotA} THEN <<"t">> ELSE <<>>

RefMissing(ref) ==
    ~RefIsDir(ref) /\ (RefFile(ref) = "" \/ fs[RefFile(ref)] = None)

\* the error the directive with this reference fails with, "" when it succeeds
RefError(ref) ==
    IF RefMissing(ref) THEN "IncludeNotFound"
    ELSE IF RefIsDir(ref) THEN "ReadError"
    ELSE IF FromUtf8(Unwrap(fs[RefFile(ref)])) = None THEN "EncodingError"
    ELSE ""

\* the paths the directive with this reference may touch
RefPaths(ref) ==
    {CharsToStr(PathJoin(BaseDir, ref))} \cup
    (IF RefIsDir(ref) THEN {"/w"}
     ELSE IF RefFile(ref) = "" THEN {} ELSE {"/w/" \o RefFile(ref)})

\* the diff of two maps as the specification describes it
CompareSpec(A, B) ==
    [p \in { p \in (DOMAIN A) \cup (DOMAIN B) :
               p \notin DOMAIN A \/ p \notin DOMAIN B \/ A[p] # B[p] } |->
        IF p \notin DOMAIN B THEN Added
        ELSE IF p \notin DOMAIN A THEN Removed
        ELSE Modified]

Ran == run.cmd # "none"

BuildOk == run.cmd = "build" /\ run.status = "Ok"

----------------------------------------------------------------------------
(* C1: for the maps A (current) and B (locked) a build check compares, the *)
(* change set is exactly: Added for a path of A only, Removed for a path   *)
(* of B only, Modified for a path of both with differing digests, and no   *)
(* entry for a path of both with equal digests.                            *)
C1_DiffCorrect ==
    BuildOk =>
        Unwrap(run.changes) = CompareSpec(run.locals.current_hashes, Unwrap(run.locked))

\* a build check whose change set holds an Added, a Modified and a Removed path
C1_Witness ==
    /\ BuildOk
    /\ \A st \in {Added, Modified, Removed} :
          \E p \in DOMAIN Unwrap(run.changes) : Unwrap(run.changes)[p] = st

(* C2: the change set never holds Unchanged nor a key outside the two      *)
(* maps, the second pass never overwrites what the first pass wrote, and   *)
(* the report never reaches unreachable!().                                *)
C2_DiffDisjoint ==
    BuildOk =>
        LET changes == Unwrap(run.changes)
            first   == Unwrap(run.first_pass)
        IN  /\ \A p \in DOMAIN changes :
                  /\ changes[p] \in {Modified, Added, Removed}
                  /\ p \in (DOMAIN run.locals.current_hashes) \cup (DOMAIN Unwrap(run.locked))
            /\ \A p \in DOMAIN first : p \in DOMAIN changes /\ changes[p] = first[p]
            /\ \A i \in 1..Len(run.report) : run.report[i][1] # "unreachable!()"
            /\ Len(run.report) = Cardinality(DOMAIN changes)

\* a build check where the first pass classified a path of both maps and the
\* second pass added a Removed one
C2_Witness ==
    /\ BuildOk
    /\ \E p \in DOMAIN Unwrap(run.first_pass) : p \in DOMAIN Unwrap(run.locked)
    /\ \E p \in DOMAIN Unwrap(run.changes) : Unwrap(run.changes)[p] = Removed
    /\ \E p \in DOMAIN run.locals.current_hashes : p \notin DOMAIN Unwrap(run.changes)

(* C6: with no lockfile, a build check whose resolution succeeds does not  *)
(* fail: read_lockfile gives the empty map and every path of the current   *)
(* hash map is Added, none Modified or Removed.                            *)
C6_AbsentLockfile ==
    (run.cmd = "build" /\ lockfile.kind = "absent" /\ run.status \notin ResolutionErrors) =>
        /\ run.status = "Ok"
        /\ run.warning
        /\ Unwrap(run.locked) = EmptyMap
        /\ DOMAIN Unwrap(run.changes) = DOMAIN run.locals.current_hashes
        /\ \A p \in DOMAIN Unwrap(run.changes) : Unwrap(run.changes)[p] = Added

\* a build check without a lockfile that resolved two files
C6_Witness ==
    /\ BuildOk
    /\ lockfile.kind = "absent"
    /\ Cardinality(DOMAIN run.locals.current_hashes) = 2

(* C3: the output of a successful process_template is seg0, block1, seg1,  *)
(* ..., blockn, segn: the template text outside the directives, verbatim   *)
(* and in order, with each directive replaced by its block (the fence with *)
(* the language hint, a line break, the file's content, a line break, the  *)
(* fence, a line break); without directives it is the template itself.     *)
SpecBlock(ref) ==
    Fence \o RefHint(ref) \o <<"\n">> \o Unwrap(fs[RefFile(ref)]) \o <<"\n">> \o
    Fence \o <<"\n">>

RECURSIVE Compose(_, _, _)
Compose(text, ds, pos) ==
    IF ds = <<>> THEN Slice(text, pos, Len(text) + 1)
    ELSE Slice(text, pos, Head(ds).start) \o SpecBlock(Head(ds).ref) \o
         Compose(text, Tail(ds), Head(ds).end)

C3_OutputComposition ==
    BuildOk =>
        Unwrap(run.stdout) =
            Compose(Unwrap(template), SpecDirectives(Unwrap(template), 1), 1)

\* a successful run over two directives with text before, between and after
C3_Witness ==
    /\ BuildOk
    /\ Len(run.locals.directives) = 2
    /\ run.locals.directives[1].start > 1
    /\ run.locals.directives[1].end < run.locals.directives[2].start
    /\ run.locals.directives[2].end <= Len(Unwrap(template))
    /\ run.locals.directives[1].ref # run.locals.directives[2].ref

(* C4: after a successful process_template the keys of the current hash    *)
(* map are exactly the canonical paths of the files the directives         *)
(* reference, one per file however it is spelled and none without          *)
(* directives, and each value is the digest of the bytes of that file.     *)
C4_HashMapKeys ==
    (Ran /\ run.status \notin ResolutionErrors) =>
        LET ds     == SpecDirectives(Unwrap(template), 1)
            hashes == run.locals.current_hashes
        IN  /\ DOMAIN hashes = { "/w/" \o RefFile(ds[i].ref) : i \in 1..Len(ds) }
            /\ \A i \in 1..Len(ds) :
                  hashes["/w/" \o RefFile(ds[i].ref)] =
                      calculate_hash(Unwrap(fs[RefFile(ds[i].ref)]))

\* three directives spell one file three ways and leave one entry
C4_Witness ==
    /\ Ran /\ run.status \notin ResolutionErrors
    /\ Len(run.locals.directives) = 3
    /\ Cardinality({ run.locals.directives[i].ref : i \in 1..3 }) = 3
    /\ Cardinality(DOMAIN run.locals.current_hashes) = 1

(* C5: (as claimed) if any directive resolves to a path that does not      *)
(* exist, process_template fails with the include-not-found error and      *)
(* returns neither output nor hash map.                                    *)
C5_AnyMissingIsNotFound ==
    (Ran /\ IsSome(template)) =>
        LET ds == SpecDirectives(Unwrap(template), 1)
        IN  (\E i \in 1..Len(ds) : RefMissing(ds[i].ref)) =>
                /\ run.status = "IncludeNotFound"
                /\ run.stdout = None
                /\ run.changes = None

(* C5: (amended) if any directive fails, process_template fails with the   *)
(* error of the first failing directive in source order, which is the      *)
(* include-not-found error when that directive's path does not exist; it   *)
(* returns neither output nor hash map, and no later directive's file is   *)
(* checked, read or hashed.                                                *)
C5_FirstFailureAborts ==
    (Ran /\ IsSome(template)) =>
        LET ds  == SpecDirectives(Unwrap(template), 1)
            bad == { i \in 1..Len(ds) : RefError(ds[i].ref) # "" }
        IN  bad # {} =>
                LET k == Min(bad)
                IN  /\ run.status = RefError(ds[k].ref)
                    /\ run.stdout = None
                    /\ run.changes = None
                    /\ Len(run.locals.directives) = k
                    /\ \A j \in 1..Len(run.locals.accessed) :
                          \E i \in 1..k : run.locals.accessed[j][2] \in RefPaths(ds[i].ref)
                    /\ Cardinality({ j \in 1..Len(run.locals.accessed) :
                                       run.locals.accessed[j][1] = "exists" }) = k

\* a missing second directive after a first one that was read and hashed,
\* with a third that exists
C5_Witness ==
    /\ Ran
    /\ run.status = "IncludeNotFound"
    /\ DOMAIN run.locals.current_hashes = {"/w/a.t"}
    /\ template = Some(TMissing)
    /\ fs["b"] # None

(* C7: (as claimed) every "[[include:" followed later by "]]" is a          *)
(* directive ending at the first "]]" after it, whatever lies between; its *)
(* reference is the text between, trimmed; directives do not overlap and   *)
(* are processed in source order.                                          *)
C7_EveryOpeningMatches ==
    (run.cmd = "build" /\ IsSome(template)) =>
        ProcessedAre(ClaimedDirectives(Unwrap(template), 1))

(* C7: (amended) every "[[include:" outside an earlier directive and        *)
(* followed later by "]]" is a directive ending at the first "]]" after it *)
(* if the text between, trimmed, holds no line break, and is no directive  *)
(* otherwise; its reference is that trimmed text; directives do not        *)
(* overlap and are processed in source order.                              *)
C7_DirectiveMatching ==
    (run.cmd = "build" /\ IsSome(template)) =>
        ProcessedAre(SpecDirectives(Unwrap(template), 1))

\* a directive whose delimiters hold line breaks around the reference
C7_Witness ==
    /\ BuildOk
    /\ \E i \in 1..Len(run.locals.directives) :
          LET d == run.locals.directives[i]
          IN  /\ d.ref = RefA
              /\ HasLineBreak(Slice(Unwrap(template), d.start, d.end))

(* C8: a build check never creates, modifies or deletes the lockfile, the  *)
(* template or an included file, however it ends; so after update-lock     *)
(* and any build checks the lockfile is still what update-lock wrote.      *)
C8_BuildCheckReadOnly ==
    /\ [][run'.cmd = "build" =>
            /\ template' = template
            /\ fs' = fs
            /\ lockfile' = lockfile
            /\ lockedFrom' = lockedFrom]_vars
    /\ [](IsSome(lockedFrom) =>
            lockfile = LockText(TomlSerialize(
                [files |-> [p \in DOMAIN Unwrap(lockedFrom) |->
                               calculate_hash(Unwrap(lockedFrom)[p])]])))

\* a build check that reported changes and still found no lockfile
C8_Witness ==
    /\ BuildOk
    /\ run.exit_code = ExitChanges
    /\ lockfile.kind = "absent"
    /\ run.warning

(* C9: a successful update-lock leaves in the lockfile exactly the current *)
(* hash map of that run; a following build check reports the diff between *)
(* the included files now and at that update-lock: nothing when they are   *)
(* the same, else Modified for a file whose content changed, Added for a   *)
(* newly included one, Removed for one no longer included.                 *)
ContentDiff(now, then) ==
    [p \in { p \in (DOMAIN now) \cup (DOMAIN then) :
               p \notin DOMAIN now \/ p \notin DOMAIN then \/ now[p] # then[p] } |->
        IF p \notin DOMAIN then THEN Added
        ELSE IF p \notin DOMAIN now THEN Removed
        ELSE Modified]

C9_UpdateThenCheck ==
    /\ (run.cmd = "update" /\ run.status = "Ok") =>
          /\ lockfile.kind = "text"
          /\ TomlParse(lockfile.text) = Some([files |-> run.locals.current_hashes])
          /\ lockedFrom = Some(run.locals.included)
    /\ (run.cmd = "build" /\ IsSome(lockedFrom)) =>
          /\ run.status \notin ResolutionErrors => run.status = "Ok"
          /\ run.status = "Ok" =>
                /\ Unwrap(run.changes) =
                       ContentDiff(run.locals.included, Unwrap(lockedFrom))
                /\ run.exit_code = ExitSuccess <=> run.locals.included = Unwrap(lockedFrom)
                /\ run.exit_code = ExitSuccess <=> run.report = <<>>

\* a build check after update-lock that finds one file modified and one added
C9_Witness ==
    /\ BuildOk
    /\ IsSome(lockedFrom)
    /\ \E p \in DOMAIN Unwrap(run.changes) : Unwrap(run.changes)[p] = Modified
    /\ \E p \in DOMAIN Unwrap(run.changes) : Unwrap(run.changes)[p] = Added

(* C10: when template resolution fails during update-lock the lockfile is  *)
(* not written: it keeps its content, or stays absent, and never holds the *)
(* hashes of the directives resolved before the failure.                   *)
C10_FailedUpdateKeepsLock ==
    [][(run'.cmd = "update" /\ run'.status \in ResolutionErrors) =>
          lockfile' = lockfile /\ lockedFrom' = lockedFrom]_vars

\* a failed update-lock that had hashed a file, over a lockfile with other
\* content
C10_Witness ==
    /\ run.cmd = "update"
    /\ run.status \in ResolutionErrors
    /\ run.locals.current_hashes # EmptyMap
    /\ lockfile.kind = "text"
    /\ TomlParse(lockfile.text) # Some([files |-> run.locals.current_hashes])

====
